---- MODULE Spec2Model ----
(***************************************************************************)
(* HelloTriangleApplication (src/src/main.cpp): physical-device selection  *)
(* and swapchain configuration, embedded in the run() sequence             *)
(* initWindow -> initVulkan -> mainLoop -> cleanup of main().              *)
(*                                                                         *)
(* The Vulkan driver is the environment.  What it reports for each         *)
(* physical device (type, features, limits, extensions, queue families,    *)
(* surface formats, present modes, surface capabilities) is fixed in the   *)
(* initial state; the VkResult of each object-creation call is chosen when *)
(* the call is made.                                                       *)
(*                                                                         *)
(* uint32_t values are pairs <<hi, lo>> of 16-bit limbs (TLC's integers    *)
(* are 32-bit signed); int values are integers in -2^31 .. 2^31-1.         *)
(***************************************************************************)
EXTENDS Integers, Sequences, FiniteSets, TLC

VARIABLES
    pc,              \* position in main()/run()/initVulkan()
    devices,         \* what vkEnumeratePhysicalDevices reports, in order
    candidates,      \* the multimap of pickPhysicalDevice, in key order
    physicalDevice,  \* member physicalDevice: index into devices, or VK_NULL_HANDLE
    indices,         \* local indices of createLogicalDevice
    createInfo,      \* the VkSwapchainCreateInfoKHR filled by createSwapChain
    error,           \* what() of the exception in flight or caught by main
    exitStatus,      \* return value of main
    queries,         \* the capability queries issued so far, in order of issue
    suitable,        \* what isDeviceSuitable returned for each device it was applied to
    created,         \* the resources created so far, in order of creation
    destroyed,       \* the resources destroyed so far, in order of destruction
    failedCalls,     \* the driver calls that returned an error code so far
    driverFaults     \* whether the surface queries of createSwapChain can fail

vars == <<pc, devices, candidates, physicalDevice, indices, createInfo, error, exitStatus,
          queries, suitable, created, destroyed, failedCalls, driverFaults>>

----------------------------------------------------------------------------
(* Bounds of the model *)

MaxDevices == 2

MaxFamilies == 3

MaxFormats == 3

MaxModes == 3

SeqsUpTo(S, n) == UNION {[1..k -> S] : k \in 0..n}

----------------------------------------------------------------------------
(* 32-bit arithmetic *)

Limb == 2^16

U32(n) == <<n \div Limb, n % Limb>>

UINT32_MAX == <<Limb - 1, Limb - 1>>

U32Add(a, b) ==
    LET lo == a[2] + b[2]
        hi == a[1] + b[1] + (lo \div Limb)
    IN  <<hi % Limb, lo % Limb>>

U32Less(a, b) == a[1] < b[1] \/ (a[1] = b[1] /\ a[2] < b[2])

U32Leq(a, b) == a = b \/ U32Less(a, b)

U32Max(a, b) == IF U32Less(a, b) THEN b ELSE a

U32Min(a, b) == IF U32Less(b, a) THEN b ELSE a

\* conversion uint32_t -> int (two's complement)
Int32OfU32(a) ==
    IF a[1] >= Limb \div 2 THEN (a[1] - Limb) * Limb + a[2] ELSE a[1] * Limb + a[2]

\* conversion int -> uint32_t (modulo 2^32)
U32OfInt32(s) == IF s >= 0 THEN U32(s) ELSE <<(s \div Limb) + Limb, s % Limb>>

----------------------------------------------------------------------------
(* Program constants *)

WIDTH == 800

HEIGHT == 600

VK_NULL_HANDLE == 0

enableValidationLayers == TRUE

deviceExtensions == {"VK_KHR_swapchain"}

\* std::optional<uint32_t>: the empty set, or the set of its value
nullopt == {}

VkResults == {"VK_SUCCESS", "VK_ERROR_INITIALIZATION_FAILED"}

----------------------------------------------------------------------------
(* struct QueueFamilyIndices *)

isComplete(ind) == ind.graphicsFamily # nullopt /\ ind.presentFamily # nullopt

(* findQueueFamilies: the loop over queueFamilies with counter i *)
RECURSIVE ScanQueueFamilies(_, _, _)
ScanQueueFamilies(queueFamilies, i, ind) ==
    IF i >= Len(queueFamilies) THEN ind
    ELSE LET queueFamily == queueFamilies[i + 1]
             withGraphics ==
                 IF "VK_QUEUE_GRAPHICS_BIT" \in queueFamily.queueFlags
                 THEN [ind EXCEPT !.graphicsFamily = {i}] ELSE ind
             withPresent ==
                 IF queueFamily.presentSupport
                 THEN [withGraphics EXCEPT !.presentFamily = {i}] ELSE withGraphics
         IN  IF isComplete(withPresent) THEN withPresent
             ELSE ScanQueueFamilies(queueFamilies, i + 1, withPresent)

(* the same loop without the break on completion *)
RECURSIVE ScanAllQueueFamilies(_, _, _)
ScanAllQueueFamilies(queueFamilies, i, ind) ==
    IF i >= Len(queueFamilies) THEN ind
    ELSE LET queueFamily == queueFamilies[i + 1]
             withGraphics ==
                 IF "VK_QUEUE_GRAPHICS_BIT" \in queueFamily.queueFlags
                 THEN [ind EXCEPT !.graphicsFamily = {i}] ELSE ind
             withPresent ==
                 IF queueFamily.presentSupport
                 THEN [withGraphics EXCEPT !.presentFamily = {i}] ELSE withGraphics
         IN  ScanAllQueueFamilies(queueFamilies, i + 1, withPresent)

findQueueFamilies_NoBreak(device) ==
    ScanAllQueueFamilies(device.queueFamilies, 0,
                         [graphicsFamily |-> nullopt, presentFamily |-> nullopt])

findQueueFamilies(device) ==
    ScanQueueFamilies(device.queueFamilies, 0,
                      [graphicsFamily |-> nullopt, presentFamily |-> nullopt])

----------------------------------------------------------------------------
(* Capability queries *)

checkDeviceExtensionSupport(device) == (deviceExtensions \ device.extensions) = {}

querySwapChainSupport(device) ==
    [capabilities |-> device.capabilities,
     formats      |-> device.formats,
     presentModes |-> device.presentModes]

checkAdequateSwapChain(device) ==
    LET swapChainSupport == querySwapChainSupport(device)
    IN  swapChainSupport.formats # <<>> /\ swapChainSupport.presentModes # <<>>

----------------------------------------------------------------------------
(* rateDeviceSuitability *)

rateDeviceSuitability_NoFeatureVeto(device) ==
    LET score1 == IF device.deviceType = "VK_PHYSICAL_DEVICE_TYPE_DISCRETE_GPU"
                  THEN 1000 ELSE 0
        score2 == IF isComplete(findQueueFamilies(device)) THEN score1 + 10 ELSE score1
        score3 == Int32OfU32(U32Add(U32OfInt32(score2), device.limits.maxImageDimension2D))
        extensionsSupported == checkDeviceExtensionSupport(device)
    IN  IF ~extensionsSupported THEN 0
        ELSE IF extensionsSupported /\ ~checkAdequateSwapChain(device) THEN 0
        ELSE score3

rateDeviceSuitability(device) ==
    LET score0 == 0
        score1 == IF device.deviceType = "VK_PHYSICAL_DEVICE_TYPE_DISCRETE_GPU"
                  THEN score0 + 1000 ELSE score0
        ind    == findQueueFamilies(device)
        score2 == IF isComplete(ind) THEN score1 + 10 ELSE score1
        \* score += maxImageDimension2D: int + uint32_t is computed in uint32_t
        \* and converted back to int
        score3 == Int32OfU32(U32Add(U32OfInt32(score2), device.limits.maxImageDimension2D))
        extensionsSupported == checkDeviceExtensionSupport(device)
    IN  IF ~device.features.geometryShader \/ ~extensionsSupported THEN 0
        ELSE IF extensionsSupported /\ ~checkAdequateSwapChain(device) THEN 0
        ELSE score3

----------------------------------------------------------------------------
(* pickPhysicalDevice: the std::multimap<int, VkPhysicalDevice> candidates *)

\* std::multimap::insert puts an entry after every entry whose key is not greater
MultimapInsert(m, entry) ==
    LET n == Cardinality({k \in 1..Len(m) : m[k].first <= entry.first})
    IN  SubSeq(m, 1, n) \o <<entry>> \o SubSeq(m, n + 1, Len(m))

RECURSIVE RateAll(_, _, _)
RateAll(devs, k, m) ==
    IF k > Len(devs) THEN m
    ELSE RateAll(devs, k + 1,
                 MultimapInsert(m, [first |-> rateDeviceSuitability(devs[k]), second |-> k]))

BestCandidate_Begin(m) == m[1]

\* candidates.rbegin()
BestCandidate(m) == m[Len(m)]

IsSuitableScore(score) == score > 0

----------------------------------------------------------------------------
(* isDeviceSuitable and the order of the capability queries *)

isDeviceSuitable(device) ==
    LET ind == findQueueFamilies(device)
        extensionsSupported == checkDeviceExtensionSupport(device)
        swapChainAdequate ==
            IF extensionsSupported THEN checkAdequateSwapChain(device) ELSE FALSE
    IN  /\ device.deviceType = "VK_PHYSICAL_DEVICE_TYPE_DISCRETE_GPU"
        /\ device.features.geometryShader
        /\ isComplete(ind)
        /\ extensionsSupported
        /\ swapChainAdequate

\* one entry of the query log: function fn issued query for devices[device]
Query(fn, device, query) == [fn |-> fn, device |-> device, query |-> query]

\* the queries of one call isDeviceSuitable(devices[k]), in order of issue
isDeviceSuitableQueries(device, k) ==
    LET fn == "isDeviceSuitable"
        extensionsSupported == checkDeviceExtensionSupport(device)
    IN  <<Query(fn, k, "vkGetPhysicalDeviceProperties"),
          Query(fn, k, "vkGetPhysicalDeviceFeatures"),
          Query(fn, k, "findQueueFamilies"),
          Query(fn, k, "checkDeviceExtensionSupport")>>
        \o (IF extensionsSupported
            THEN <<Query(fn, k, "querySwapChainSupport")>> ELSE <<>>)

rateDeviceSuitabilityQueries_SwapChainFirst(device, k) ==
    LET fn == "rateDeviceSuitability"
    IN  <<Query(fn, k, "vkGetPhysicalDeviceProperties"),
          Query(fn, k, "vkGetPhysicalDeviceFeatures"),
          Query(fn, k, "findQueueFamilies"),
          Query(fn, k, "querySwapChainSupport"),
          Query(fn, k, "checkDeviceExtensionSupport")>>

\* the queries of one call rateDeviceSuitability(devices[k]), in order of issue
rateDeviceSuitabilityQueries(device, k) ==
    LET fn == "rateDeviceSuitability"
        extensionsSupported == checkDeviceExtensionSupport(device)
    IN  <<Query(fn, k, "vkGetPhysicalDeviceProperties"),
          Query(fn, k, "vkGetPhysicalDeviceFeatures"),
          Query(fn, k, "findQueueFamilies"),
          Query(fn, k, "checkDeviceExtensionSupport")>>
        \o (IF ~(~device.features.geometryShader \/ ~extensionsSupported)
               /\ extensionsSupported
            THEN <<Query(fn, k, "querySwapChainSupport")>> ELSE <<>>)

\* the queries of the range-for of pickPhysicalDevice from device k on
RECURSIVE RateAllQueries(_, _)
RateAllQueries(devs, k) ==
    IF k > Len(devs) THEN <<>>
    ELSE rateDeviceSuitabilityQueries(devs[k], k) \o RateAllQueries(devs, k + 1)

\* isDeviceSuitable applied to every device from device k on
RECURSIVE SuitableAll(_, _)
SuitableAll(devs, k) ==
    IF k > Len(devs) THEN <<>>
    ELSE <<isDeviceSuitable(devs[k])>> \o SuitableAll(devs, k + 1)

RECURSIVE SuitableAllQueries(_, _)
SuitableAllQueries(devs, k) ==
    IF k > Len(devs) THEN <<>>
    ELSE isDeviceSuitableQueries(devs[k], k) \o SuitableAllQueries(devs, k + 1)

----------------------------------------------------------------------------
(* Swapchain configuration *)

PreferredFormat ==
    [format |-> "VK_FORMAT_B8G8R8A8_SRGB", colorSpace |-> "VK_COLOR_SPACE_SRGB_NONLINEAR_KHR"]

IsPreferredFormat(availableFormat) ==
    availableFormat.format = "VK_FORMAT_B8G8R8A8_SRGB"
    /\ availableFormat.colorSpace = "VK_COLOR_SPACE_SRGB_NONLINEAR_KHR"

\* the range-for of chooseSwapSurfaceFormat from position k on; availableFormats[0]
\* (the read after the loop) is defined for a non-empty list only
RECURSIVE FormatLoop(_, _)
FormatLoop(availableFormats, k) ==
    IF k > Len(availableFormats) THEN availableFormats[1]
    ELSE IF IsPreferredFormat(availableFormats[k]) THEN availableFormats[k]
    ELSE FormatLoop(availableFormats, k + 1)

RECURSIVE FormatLoop_FormatOnly(_, _)
FormatLoop_FormatOnly(availableFormats, k) ==
    IF k > Len(availableFormats) THEN availableFormats[1]
    ELSE IF availableFormats[k].format = "VK_FORMAT_B8G8R8A8_SRGB" THEN availableFormats[k]
    ELSE FormatLoop_FormatOnly(availableFormats, k + 1)

chooseSwapSurfaceFormat_FormatOnly(availableFormats) ==
    FormatLoop_FormatOnly(availableFormats, 1)

chooseSwapSurfaceFormat(availableFormats) == FormatLoop(availableFormats, 1)

\* the range-for of chooseSwapPresentMode from position k on
RECURSIVE PresentModeLoop(_, _)
PresentModeLoop(availablePresentModes, k) ==
    IF k > Len(availablePresentModes) THEN "VK_PRESENT_MODE_FIFO_KHR"
    ELSE IF availablePresentModes[k] = "VK_PRESENT_MODE_MAILBOX_KHR"
         THEN availablePresentModes[k]
    ELSE PresentModeLoop(availablePresentModes, k + 1)

chooseSwapPresentMode_FirstOnly(availablePresentModes) ==
    IF availablePresentModes # <<>>
       /\ availablePresentModes[1] = "VK_PRESENT_MODE_MAILBOX_KHR"
    THEN "VK_PRESENT_MODE_MAILBOX_KHR" ELSE "VK_PRESENT_MODE_FIFO_KHR"

chooseSwapPresentMode(availablePresentModes) == PresentModeLoop(availablePresentModes, 1)

chooseSwapExtent_NoLowerClamp(capabilities) ==
    IF capabilities.currentExtent.width # UINT32_MAX THEN capabilities.currentExtent
    ELSE [width  |-> U32Min(capabilities.maxImageExtent.width, U32(WIDTH)),
          height |-> U32Min(capabilities.maxImageExtent.height, U32(HEIGHT))]

chooseSwapExtent_AlwaysClamp(capabilities) ==
    [width  |-> U32Max(capabilities.minImageExtent.width,
                       U32Min(capabilities.maxImageExtent.width, U32(WIDTH))),
     height |-> U32Max(capabilities.minImageExtent.height,
                       U32Min(capabilities.maxImageExtent.height, U32(HEIGHT)))]

chooseSwapExtent(capabilities) ==
    IF capabilities.currentExtent.width # UINT32_MAX THEN capabilities.currentExtent
    ELSE [width  |-> U32Max(capabilities.minImageExtent.width,
                            U32Min(capabilities.maxImageExtent.width, U32(WIDTH))),
          height |-> U32Max(capabilities.minImageExtent.height,
                            U32Min(capabilities.maxImageExtent.height, U32(HEIGHT)))]

\* createSwapChain: uint32_t imageCount
imageCount(capabilities) ==
    LET start == U32Add(capabilities.minImageCount, U32(1))
    IN  IF U32Less(U32(0), capabilities.maxImageCount)
           /\ U32Less(capabilities.maxImageCount, start)
        THEN capabilities.maxImageCount ELSE start

\* what reading availableFormats[0] of an empty vector may yield
SurfaceFormatValues ==
    [format : {"VK_FORMAT_B8G8R8A8_SRGB", "VK_FORMAT_B8G8R8A8_UNORM"},
     colorSpace : {"VK_COLOR_SPACE_SRGB_NONLINEAR_KHR", "VK_COLOR_SPACE_EXTENDED_SRGB_LINEAR_EXT"}]

----------------------------------------------------------------------------
(* What the driver reports *)

Extent(w, h) == [width |-> w, height |-> h]

\* an ordinary surface: independent sizing, no upper limit on the image count
NormalCapabilities ==
    [minImageCount  |-> U32(2),
     maxImageCount  |-> U32(0),
     currentExtent  |-> Extent(UINT32_MAX, UINT32_MAX),
     minImageExtent |-> Extent(U32(1), U32(1)),
     maxImageExtent |-> Extent(U32(4096), U32(4096))]

GraphicsPresentFamily == [queueFlags |-> {"VK_QUEUE_GRAPHICS_BIT"}, presentSupport |-> TRUE]

GraphicsOnlyFamily == [queueFlags |-> {"VK_QUEUE_GRAPHICS_BIT"}, presentSupport |-> FALSE]

QueueFamilyValues == [queueFlags : SUBSET {"VK_QUEUE_GRAPHICS_BIT"}, presentSupport : BOOLEAN]

DeviceTypes ==
    {"VK_PHYSICAL_DEVICE_TYPE_DISCRETE_GPU", "VK_PHYSICAL_DEVICE_TYPE_INTEGRATED_GPU"}

PresentModeValues ==
    {"VK_PRESENT_MODE_IMMEDIATE_KHR", "VK_PRESENT_MODE_MAILBOX_KHR",
     "VK_PRESENT_MODE_FIFO_KHR", "VK_PRESENT_MODE_FIFO_RELAXED_KHR"}

\* a discrete GPU that passes every check of rateDeviceSuitability
GoodDevice ==
    [deviceType    |-> "VK_PHYSICAL_DEVICE_TYPE_DISCRETE_GPU",
     features      |-> [geometryShader |-> TRUE],
     limits        |-> [maxImageDimension2D |-> U32(4096)],
     extensions    |-> {"VK_KHR_swapchain"},
     queueFamilies |-> <<GraphicsPresentFamily>>,
     formats       |-> <<PreferredFormat>>,
     presentModes  |-> <<"VK_PRESENT_MODE_FIFO_KHR">>,
     capabilities  |-> NormalCapabilities]

\* extension list and surface support reported together
SwapchainProfiles ==
    {[extensions |-> {},                   formats |-> <<PreferredFormat>>],
     [extensions |-> {"VK_KHR_swapchain"}, formats |-> <<>>],
     [extensions |-> {"VK_KHR_swapchain"}, formats |-> <<PreferredFormat>>]}

\* the devices of the selection runs: every combination of type, feature,
\* extension and surface support, queue roles and an ordinary maxImageDimension2D,
\* and the good device with a maxImageDimension2D of 2^31 - 1010 and of 2^32 - 1010
SelectionDevices ==
    {[GoodDevice EXCEPT !.deviceType = t,
                        !.features.geometryShader = g,
                        !.extensions = sw.extensions,
                        !.formats = sw.formats,
                        !.queueFamilies = q,
                        !.limits.maxImageDimension2D = m] :
        t \in DeviceTypes, g \in BOOLEAN, sw \in SwapchainProfiles,
        q \in {<<GraphicsPresentFamily>>, <<GraphicsOnlyFamily>>},
        m \in {U32(4096), U32(8192)}}
    \cup
    {[GoodDevice EXCEPT !.limits.maxImageDimension2D = m] :
        m \in {U32Add(U32(2147483647 - 1010), U32(1)), U32OfInt32(-1010)}}

\* maxImageDimension2D over the uint32_t range: small values, the values around
\* 2^31 - 1010 and 2^31, and the values around 2^32 - 1010 and 2^32 - 1
DimensionValues ==
    {U32(0), U32(4096), U32(8192),
     U32(2147483647 - 1010), U32Add(U32(2147483647 - 1010), U32(1)),
     U32(2147483647), U32Add(U32(2147483647), U32(1)),
     U32OfInt32(-1010), UINT32_MAX}

\* the devices of the rating runs
RatingDevices ==
    {[GoodDevice EXCEPT !.deviceType = t,
                        !.features.geometryShader = g,
                        !.extensions = e,
                        !.formats = f,
                        !.presentModes = pm,
                        !.queueFamilies = q,
                        !.limits.maxImageDimension2D = m] :
        t \in DeviceTypes, g \in BOOLEAN,
        e \in SUBSET {"VK_KHR_swapchain", "VK_KHR_maintenance1"},
        f \in {<<>>, <<PreferredFormat>>},
        pm \in {<<>>, <<"VK_PRESENT_MODE_FIFO_KHR">>},
        q \in {<<>>, <<GraphicsPresentFamily>>, <<GraphicsOnlyFamily>>},
        m \in DimensionValues}

\* image counts over the uint32_t range
CountValues == {U32(0), U32(1), U32(2), U32(3), U32Add(UINT32_MAX, UINT32_MAX), UINT32_MAX}

\* extent components over the uint32_t range
ExtentValues == {U32(1), U32(HEIGHT), U32(WIDTH), U32(4096), UINT32_MAX}

----------------------------------------------------------------------------
(* Initial states: HelloTriangleApplication app; in main *)

\* VkSwapchainCreateInfoKHR createInfo{}: every field zero
ZeroCreateInfo ==
    [minImageCount   |-> U32(0),
     imageFormat     |-> "VK_FORMAT_UNDEFINED",
     imageColorSpace |-> "VK_COLOR_SPACE_SRGB_NONLINEAR_KHR",
     imageExtent     |-> Extent(U32(0), U32(0)),
     presentMode     |-> "VK_PRESENT_MODE_IMMEDIATE_KHR"]

\* a VkSurfaceCapabilitiesKHR of zero bytes
ZeroCapabilities ==
    [minImageCount  |-> U32(0),
     maxImageCount  |-> U32(0),
     currentExtent  |-> Extent(U32(0), U32(0)),
     minImageExtent |-> Extent(U32(0), U32(0)),
     maxImageExtent |-> Extent(U32(0), U32(0))]

\* what the details of querySwapChainSupport may hold when its driver calls fail:
\* capabilities is never written, the counts are never written, and a vector
\* resized by an unwritten count keeps its zero-valued elements
IndeterminateSupport ==
    [capabilities : {ZeroCapabilities, NormalCapabilities},
     formats      : {<<>>, <<[format     |-> "VK_FORMAT_UNDEFINED",
                              colorSpace |-> "VK_COLOR_SPACE_SRGB_NONLINEAR_KHR"]>>},
     presentModes : {<<>>, <<"VK_PRESENT_MODE_IMMEDIATE_KHR">>}]

\* the results the surface queries of createSwapChain can return
SurfaceQueryResults ==
    IF driverFaults THEN {"VK_SUCCESS", "VK_ERROR_SURFACE_LOST_KHR"} ELSE {"VK_SUCCESS"}

InitState(deviceLists, faults) ==
    /\ pc = "initWindow"
    /\ devices \in deviceLists
    /\ candidates = <<>>
    /\ physicalDevice = VK_NULL_HANDLE
    /\ indices = [graphicsFamily |-> nullopt, presentFamily |-> nullopt]
    /\ createInfo = ZeroCreateInfo
    /\ error = "none"
    /\ exitStatus = "running"
    /\ queries = <<>>
    /\ suitable = <<>>
    /\ created = <<>>
    /\ destroyed = <<>>
    /\ failedCalls = {}
    /\ driverFaults \in faults

\* the surface stays valid for the whole run
InitWith(deviceLists) == InitState(deviceLists, {FALSE})

Init == InitWith(SeqsUpTo(SelectionDevices, MaxDevices))

InitRate == InitWith({<<d>> : d \in RatingDevices})

InitQueue ==
    InitWith({<<[GoodDevice EXCEPT !.queueFamilies = q]>> :
                q \in SeqsUpTo(QueueFamilyValues, MaxFamilies)})

InitImageCount ==
    InitWith({<<[GoodDevice EXCEPT !.capabilities.minImageCount = lo,
                                   !.capabilities.maxImageCount = hi]>> :
                lo \in CountValues, hi \in CountValues})

InitExtent ==
    InitWith({<<[GoodDevice EXCEPT !.capabilities.currentExtent = Extent(cw, ch),
                                   !.capabilities.minImageExtent = Extent(lw, lh),
                                   !.capabilities.maxImageExtent = Extent(hw, hh)]>> :
                cw \in ExtentValues, ch \in ExtentValues,
                lw \in ExtentValues, lh \in ExtentValues,
                hw \in ExtentValues, hh \in ExtentValues})

InitFormat ==
    InitWith({<<[GoodDevice EXCEPT !.formats = f]>> :
                f \in SeqsUpTo(SurfaceFormatValues, MaxFormats)})

InitPresentMode ==
    InitWith({<<[GoodDevice EXCEPT !.presentModes = pm]>> :
                pm \in SeqsUpTo(PresentModeValues, MaxModes)})

\* the surface may be lost once the physical device is selected
InitFaults == InitState(SeqsUpTo(SelectionDevices, MaxDevices), BOOLEAN)

----------------------------------------------------------------------------
(* Steps of run() *)

\* throw std::runtime_error(what) / any std::exception leaving run()
Throw(what) ==
    /\ pc' = "catch"
    /\ error' = what

\* a driver call returned other than VK_SUCCESS and the caller throws
Fail(call, what) ==
    /\ Throw(what)
    /\ failedCalls' = failedCalls \cup {call}
    /\ UNCHANGED created

\* a creation call returned its handle
Create(resource) == created' = Append(created, resource)

initWindow ==
    /\ pc = "initWindow"
    /\ pc' = "createInstance"
    /\ Create("window")
    /\ UNCHANGED <<devices, candidates, physicalDevice, indices, createInfo, error, exitStatus,
                   queries, suitable, destroyed, failedCalls, driverFaults>>

createInstance ==
    /\ pc = "createInstance"
    /\ \E layersSupported \in BOOLEAN, result \in VkResults :
          IF enableValidationLayers /\ ~layersSupported
          THEN /\ Throw("[ERROR] Validation layers requested, but not available!")
               /\ UNCHANGED <<created, failedCalls>>
          ELSE IF result # "VK_SUCCESS"
          THEN Fail("vkCreateInstance", "[ERROR] Failed to create a Vulkan instance")
          ELSE /\ pc' = "setupDebugMessenger"
               /\ Create("instance")
               /\ UNCHANGED <<error, failedCalls>>
    /\ UNCHANGED <<devices, candidates, physicalDevice, indices, createInfo, exitStatus,
                   queries, suitable, destroyed, driverFaults>>

setupDebugMessenger ==
    /\ pc = "setupDebugMessenger"
    /\ \E result \in VkResults \cup {"VK_ERROR_EXTENSION_NOT_PRESENT"} :
          IF ~enableValidationLayers
          THEN pc' = "createSurface" /\ UNCHANGED <<error, created, failedCalls>>
          ELSE IF result # "VK_SUCCESS"
          THEN Fail("vkCreateDebugUtilsMessengerEXT",
                    "[ERROR] Failed to set up debug messenger!")
          ELSE /\ pc' = "createSurface"
               /\ Create("debugMessenger")
               /\ UNCHANGED <<error, failedCalls>>
    /\ UNCHANGED <<devices, candidates, physicalDevice, indices, createInfo, exitStatus,
                   queries, suitable, destroyed, driverFaults>>

createSurface ==
    /\ pc = "createSurface"
    /\ \E result \in VkResults :
          IF result # "VK_SUCCESS"
          THEN Fail("glfwCreateWindowSurface", "[ERROR] Failed to create window surface!")
          ELSE /\ pc' = "pickPhysicalDevice"
               /\ Create("surface")
               /\ UNCHANGED <<error, failedCalls>>
    /\ UNCHANGED <<devices, candidates, physicalDevice, indices, createInfo, exitStatus,
                   queries, suitable, destroyed, driverFaults>>

pickPhysicalDevice ==
    /\ pc = "pickPhysicalDevice"
    /\ LET deviceCount == Len(devices)
           rated == RateAll(devices, 1, <<>>)
       IN  IF deviceCount = 0
           THEN /\ Throw("[ERROR] Failed to find GPUs with Vulkan support!")
                /\ UNCHANGED <<candidates, physicalDevice, queries>>
           ELSE /\ candidates' = rated
                /\ queries' = queries \o RateAllQueries(devices, 1)
                /\ IF IsSuitableScore(BestCandidate(rated).first)
                   THEN /\ physicalDevice' = BestCandidate(rated).second
                        /\ pc' = "createLogicalDevice"
                        /\ UNCHANGED error
                   ELSE /\ Throw("[ERROR] Failed to find a suitable GPU!")
                        /\ UNCHANGED physicalDevice
    /\ UNCHANGED <<devices, indices, createInfo, exitStatus,
                   suitable, created, destroyed, failedCalls, driverFaults>>

createLogicalDevice ==
    /\ pc = "createLogicalDevice"
    /\ indices' = findQueueFamilies(devices[physicalDevice])
    /\ \E result \in VkResults :
          \* std::optional::value() of an empty optional throws
          IF ~isComplete(indices')
          THEN Throw("bad optional access") /\ UNCHANGED <<created, failedCalls>>
          ELSE IF result # "VK_SUCCESS"
          THEN Fail("vkCreateDevice", "[ERROR] Failed to create logical device!")
          ELSE /\ pc' = "createSwapChain"
               /\ Create("device")
               /\ UNCHANGED <<error, failedCalls>>
    /\ UNCHANGED <<devices, candidates, physicalDevice, createInfo, exitStatus,
                   queries, suitable, destroyed, driverFaults>>

createSwapChain ==
    /\ pc = "createSwapChain"
    /\ queries' = Append(queries,
                         Query("createSwapChain", physicalDevice, "querySwapChainSupport"))
    /\ \E queryResult \in SurfaceQueryResults, result \in VkResults :
          \* the VkResult of the surface queries is discarded
          /\ \E swapChainSupport \in
                    IF queryResult = "VK_SUCCESS"
                    THEN {querySwapChainSupport(devices[physicalDevice])}
                    ELSE IndeterminateSupport :
                \E surfaceFormat \in
                      IF swapChainSupport.formats = <<>> THEN SurfaceFormatValues
                      ELSE {chooseSwapSurfaceFormat(swapChainSupport.formats)} :
                   createInfo' =
                      [minImageCount   |-> imageCount(swapChainSupport.capabilities),
                       imageFormat     |-> surfaceFormat.format,
                       imageColorSpace |-> surfaceFormat.colorSpace,
                       imageExtent     |-> chooseSwapExtent(swapChainSupport.capabilities),
                       presentMode     |-> chooseSwapPresentMode(swapChainSupport.presentModes)]
          /\ LET queryFailures ==
                     IF queryResult = "VK_SUCCESS" THEN {}
                     ELSE {"vkGetPhysicalDeviceSurfaceCapabilitiesKHR"}
             IN  IF result # "VK_SUCCESS"
                 THEN /\ Throw("[ERROR] Failed to create swap chain!")
                      /\ failedCalls' = failedCalls \cup queryFailures
                                                    \cup {"vkCreateSwapchainKHR"}
                      /\ UNCHANGED created
                 ELSE /\ pc' = "mainLoop"
                      /\ Create("swapChain")
                      /\ failedCalls' = failedCalls \cup queryFailures
                      /\ UNCHANGED error
    /\ UNCHANGED <<devices, candidates, physicalDevice, indices, exitStatus,
                   suitable, destroyed, driverFaults>>

mainLoop ==
    /\ pc = "mainLoop"
    /\ \E shouldClose \in BOOLEAN :
          pc' = IF shouldClose THEN "cleanup" ELSE "mainLoop"
    /\ UNCHANGED <<devices, candidates, physicalDevice, indices, createInfo, error, exitStatus,
                   queries, suitable, created, destroyed, failedCalls, driverFaults>>

cleanupOrder_ReverseOfCreation ==
    <<"swapChain", "device", "surface", "debugMessenger", "instance", "window">>

\* the destroy calls of cleanup, in order
cleanupOrder ==
    <<"swapChain", "device">>
    \o (IF enableValidationLayers THEN <<"debugMessenger">> ELSE <<>>)
    \o <<"surface", "instance", "window">>

\* cleanup, the return of run() and return EXIT_SUCCESS
cleanup ==
    /\ pc = "cleanup"
    /\ pc' = "exit"
    /\ exitStatus' = "EXIT_SUCCESS"
    /\ destroyed' = destroyed \o cleanupOrder
    /\ UNCHANGED <<devices, candidates, physicalDevice, indices, createInfo, error,
                   queries, suitable, created, failedCalls, driverFaults>>

\* catch (const std::exception &) in main: run() was left without cleanup()
mainCatch ==
    /\ pc = "catch"
    /\ pc' = "exit"
    /\ exitStatus' = "EXIT_FAILURE"
    /\ UNCHANGED <<devices, candidates, physicalDevice, indices, createInfo, error,
                   queries, suitable, created, destroyed, failedCalls, driverFaults>>

Next ==
    \/ initWindow
    \/ createInstance
    \/ setupDebugMessenger
    \/ createSurface
    \/ pickPhysicalDevice
    \/ createLogicalDevice
    \/ createSwapChain
    \/ mainLoop
    \/ cleanup
    \/ mainCatch

\* isDeviceSuitable applied to every enumerated device once the surface exists;
\* run() itself has no call of it
isDeviceSuitableCall ==
    /\ pc = "pickPhysicalDevice"
    /\ suitable = <<>>
    /\ devices # <<>>
    /\ suitable' = SuitableAll(devices, 1)
    /\ queries' = queries \o SuitableAllQueries(devices, 1)
    /\ UNCHANGED <<pc, devices, candidates, physicalDevice, indices, createInfo, error,
                   exitStatus, created, destroyed, failedCalls, driverFaults>>

NextSuitable ==
    \/ Next
    \/ isDeviceSuitableCall

Spec == Init /\ [][Next]_vars

SpecRate == InitRate /\ [][Next]_vars

SpecQueue == InitQueue /\ [][Next]_vars

SpecImageCount == InitImageCount /\ [][Next]_vars

SpecExtent == InitExtent /\ [][Next]_vars

SpecFormat == InitFormat /\ [][Next]_vars

SpecPresentMode == InitPresentMode /\ [][Next]_vars

SpecFaults == InitFaults /\ [][Next]_vars

SpecSuitable == Init /\ [][NextSuitable]_vars

----------------------------------------------------------------------------
(* Vocabulary of the properties *)

Min(S) == CHOOSE x \in S : \A y \in S : x <= y

Max(S) == CHOOSE x \in S : \A y \in S : y <= x

PickErrors ==
    {"[ERROR] Failed to find GPUs with Vulkan support!", "[ERROR] Failed to find a suitable GPU!"}

\* createLogicalDevice has run
AfterCreateLogicalDevice ==
    \/ pc \in {"createSwapChain", "mainLoop", "cleanup"}
    \/ exitStatus = "EXIT_SUCCESS"
    \/ error \in {"bad optional access", "[ERROR] Failed to create logical device!",
                  "[ERROR] Failed to create swap chain!"}

\* pickPhysicalDevice has run
AfterPick == pc = "createLogicalDevice" \/ AfterCreateLogicalDevice \/ error \in PickErrors

PickFailed == error \in PickErrors

\* createSwapChain has filled its create info
Configured ==
    \/ pc \in {"mainLoop", "cleanup"}
    \/ exitStatus = "EXIT_SUCCESS"
    \/ error = "[ERROR] Failed to create swap chain!"

HasGraphics(d) ==
    \E k \in DOMAIN d.queueFamilies : "VK_QUEUE_GRAPHICS_BIT" \in d.queueFamilies[k].queueFlags

HasPresent(d) == \E k \in DOMAIN d.queueFamilies : d.queueFamilies[k].presentSupport

RolesComplete(d) == HasGraphics(d) /\ HasPresent(d)

SupportsRequired(d) == deviceExtensions \subseteq d.extensions

Adequate(d) == d.formats # <<>> /\ d.presentModes # <<>>

IsDiscrete(d) == d.deviceType = "VK_PHYSICAL_DEVICE_TYPE_DISCRETE_GPU"

\* the hard veto conditions of the scoring function
Vetoed(d) ==
    \/ ~d.features.geometryShader
    \/ ~SupportsRequired(d)
    \/ (SupportsRequired(d) /\ ~Adequate(d))

\* 1000 for a discrete device + 10 for complete queue roles
Bonus(d) == (IF IsDiscrete(d) THEN 1000 ELSE 0) + (IF RolesComplete(d) THEN 10 ELSE 0)

\* score is the integer bonus + u, u a uint32_t: the sum is below 2^31 and equals score
ExactSum(score, bonus, u) ==
    LET lo == u[2] + bonus
        hi == u[1] + (lo \div Limb)
    IN  hi < Limb \div 2 /\ score = hi * Limb + (lo % Limb)

\* the score as an int: the sum bonus + maxImageDimension2D reduced to 32 bits, signed
WrappedScore(d) ==
    IF Vetoed(d) THEN 0
    ELSE Int32OfU32(U32Add(U32(Bonus(d)), d.limits.maxImageDimension2D))

Scores == {rateDeviceSuitability(devices[k]) : k \in DOMAIN devices}

----------------------------------------------------------------------------
(* C1: pickPhysicalDevice fails, leaving physicalDevice unset, when the    *)
(* device list is empty or the maximum of rateDeviceSuitability over it is *)
(* not strictly positive; otherwise it sets physicalDevice to a device of  *)
(* the list whose score is that maximum.                                   *)

C1_SelectsMaximum ==
    /\ (devices = <<>> \/ Max(Scores) <= 0) =>
          /\ physicalDevice = VK_NULL_HANDLE
          /\ AfterPick => PickFailed
    /\ (devices # <<>> /\ Max(Scores) > 0 /\ AfterPick) =>
          /\ ~PickFailed
          /\ physicalDevice \in DOMAIN devices
          /\ rateDeviceSuitability(devices[physicalDevice]) = Max(Scores)

\* a veto-passing integrated device of maxDim 4096 and a veto-passing discrete
\* device of maxDim 8192: the discrete one is selected
C1_Witness ==
    /\ AfterPick
    /\ Len(devices) = 2
    /\ ~Vetoed(devices[1]) /\ ~IsDiscrete(devices[1])
    /\ devices[1].limits.maxImageDimension2D = U32(4096)
    /\ ~Vetoed(devices[2]) /\ IsDiscrete(devices[2])
    /\ devices[2].limits.maxImageDimension2D = U32(8192)
    /\ physicalDevice = 2

----------------------------------------------------------------------------
(* C2: for every device list containing a discrete GPU with complete queue *)
(* roles, the required extensions and non-empty format and present-mode    *)
(* lists, pickPhysicalDevice succeeds and returns that device, or the      *)
(* highest-scoring among several such devices.                             *)

Qualifies(d) == IsDiscrete(d) /\ RolesComplete(d) /\ SupportsRequired(d) /\ Adequate(d)

----------------------------------------------------------------------------
(* C3: after pickPhysicalDevice succeeds the selected device has complete  *)
(* queue roles, supports every required extension and has at least one     *)
(* surface format and one present mode, so createLogicalDevice never reads *)
(* an absent queue-family index.                                           *)

C3_Eligibility ==
    /\ physicalDevice # VK_NULL_HANDLE =>
          /\ RolesComplete(devices[physicalDevice])
          /\ SupportsRequired(devices[physicalDevice])
          /\ Adequate(devices[physicalDevice])
    /\ error # "bad optional access"

----------------------------------------------------------------------------
(* C4: rateDeviceSuitability is 0 when the geometry-shader feature is      *)
(* absent, a required extension is unsupported or the format or            *)
(* present-mode list is empty, and otherwise equals 1000 (discrete) + 10   *)
(* (complete queue roles) + maxImageDimension2D, for every                 *)
(* maxImageDimension2D of the 32-bit unsigned range.                       *)

C4_Score ==
    \A k \in DOMAIN candidates :
        LET d     == devices[candidates[k].second]
            score == candidates[k].first
        IN  IF Vetoed(d) THEN score = 0
            ELSE ExactSum(score, Bonus(d), d.limits.maxImageDimension2D)

----------------------------------------------------------------------------
(* C5: findQueueFamilies returns as graphics role the first index with     *)
(* graphics capability and as present role the first index that supports   *)
(* presentation; each index lies in [0, familyCount); a role is absent iff *)
(* no family has the capability.                                           *)

GraphicsIndices(d) ==
    {i \in 0..(Len(d.queueFamilies) - 1) :
        "VK_QUEUE_GRAPHICS_BIT" \in d.queueFamilies[i + 1].queueFlags}

PresentIndices(d) ==
    {i \in 0..(Len(d.queueFamilies) - 1) : d.queueFamilies[i + 1].presentSupport}

FirstOf(S) == IF S = {} THEN {} ELSE {Min(S)}

LastOf(S) == IF S = {} THEN {} ELSE {Max(S)}

StopIndex(d) ==
    LET done == {k \in 0..(Len(d.queueFamilies) - 1) :
                    /\ \E i \in GraphicsIndices(d) : i <= k
                    /\ \E i \in PresentIndices(d) : i <= k}
    IN  IF done # {} THEN Min(done) ELSE Len(d.queueFamilies) - 1

----------------------------------------------------------------------------
(* C6: the image count chosen in createSwapChain satisfies, for every      *)
(* 32-bit unsigned minImageCount and maxImageCount, minImageCount <= count *)
(* and count <= maxImageCount whenever maxImageCount # 0.  Stated for the  *)
(* pairs that leave room for such a count (maxImageCount = 0 or            *)
(* minImageCount <= maxImageCount).                                        *)

C6_ImageCount ==
    Configured =>
        LET caps  == devices[physicalDevice].capabilities
            count == createInfo.minImageCount
        IN  (caps.maxImageCount = U32(0) \/ U32Leq(caps.minImageCount, caps.maxImageCount)) =>
               /\ U32Leq(caps.minImageCount, count)
               /\ caps.maxImageCount # U32(0) => U32Leq(count, caps.maxImageCount)

----------------------------------------------------------------------------
(* C7: for every surface capability snapshot the extent returned by        *)
(* chooseSwapExtent satisfies minImageExtent <= extent <= maxImageExtent   *)
(* in width and in height.  Stated for the snapshots whose bounds leave    *)
(* room for an extent (minImageExtent <= maxImageExtent).                  *)

Between(lo, x, hi) == U32Leq(lo, x) /\ U32Leq(x, hi)

WithinBounds(extent, caps) ==
    /\ Between(caps.minImageExtent.width, extent.width, caps.maxImageExtent.width)
    /\ Between(caps.minImageExtent.height, extent.height, caps.maxImageExtent.height)

C7_Original ==
    Configured =>
        LET caps == devices[physicalDevice].capabilities
        IN  (/\ U32Leq(caps.minImageExtent.width, caps.maxImageExtent.width)
             /\ U32Leq(caps.minImageExtent.height, caps.maxImageExtent.height)) =>
               WithinBounds(createInfo.imageExtent, caps)

(* C7 as amended: when the surface reports the sentinel current extent,    *)
(* each component of the returned extent lies within its bounds whenever   *)
(* those bounds satisfy min <= max; when it reports a non-sentinel current *)
(* extent, the returned extent lies within the bounds exactly when the     *)
(* reported current extent does.                                           *)
C7_Amended ==
    Configured =>
        LET caps   == devices[physicalDevice].capabilities
            extent == createInfo.imageExtent
        IN  IF caps.currentExtent.width = UINT32_MAX
            THEN /\ U32Leq(caps.minImageExtent.width, caps.maxImageExtent.width) =>
                       Between(caps.minImageExtent.width, extent.width,
                               caps.maxImageExtent.width)
                 /\ U32Leq(caps.minImageExtent.height, caps.maxImageExtent.height) =>
                       Between(caps.minImageExtent.height, extent.height,
                               caps.maxImageExtent.height)
            ELSE WithinBounds(extent, caps) <=> WithinBounds(caps.currentExtent, caps)

\* a non-sentinel current extent above maxImageExtent is returned as it is
C7_Witness ==
    /\ Configured
    /\ devices[physicalDevice].capabilities.currentExtent = Extent(U32(4096), U32(4096))
    /\ devices[physicalDevice].capabilities.minImageExtent = Extent(U32(1), U32(1))
    /\ devices[physicalDevice].capabilities.maxImageExtent = Extent(U32(WIDTH), U32(HEIGHT))
    /\ createInfo.imageExtent = Extent(U32(4096), U32(4096))

----------------------------------------------------------------------------
(* C8: when the surface reports the sentinel current extent, the result is *)
(* the preferred size (800, 600) clamped componentwise into                *)
(* [minImageExtent, maxImageExtent]: the preferred size when it is inside  *)
(* the bounds, the nearest bound when it is outside; when the surface      *)
(* reports a non-sentinel current extent, that extent is returned          *)
(* unchanged.  The sentinel is read off the width, and the clamp is stated *)
(* for bounds with min <= max.                                             *)

ClampedInto(r, preferred, lo, hi) ==
    U32Leq(lo, hi) =>
        /\ Between(lo, preferred, hi) => r = preferred
        /\ U32Less(preferred, lo) => r = lo
        /\ U32Less(hi, preferred) => r = hi

C8_ExtentRule ==
    Configured =>
        LET caps   == devices[physicalDevice].capabilities
            extent == createInfo.imageExtent
        IN  IF caps.currentExtent.width = UINT32_MAX
            THEN /\ ClampedInto(extent.width, U32(WIDTH),
                                caps.minImageExtent.width, caps.maxImageExtent.width)
                 /\ ClampedInto(extent.height, U32(HEIGHT),
                                caps.minImageExtent.height, caps.maxImageExtent.height)
            ELSE extent = caps.currentExtent

\* sentinel, width below the minimum and height above the maximum
C8_Witness ==
    /\ Configured
    /\ devices[physicalDevice].capabilities.currentExtent = Extent(UINT32_MAX, UINT32_MAX)
    /\ devices[physicalDevice].capabilities.minImageExtent = Extent(U32(4096), U32(1))
    /\ devices[physicalDevice].capabilities.maxImageExtent = Extent(U32(4096), U32(1))
    /\ createInfo.imageExtent = Extent(U32(4096), U32(1))

----------------------------------------------------------------------------
(* C9: for every non-empty format list chooseSwapSurfaceFormat returns the *)
(* lowest-index entry equal to the preferred pair (B8G8R8A8 sRGB, sRGB     *)
(* nonlinear) if there is one and the entry at index 0 otherwise; the      *)
(* result is an element of the list.                                       *)

C9_SurfaceFormat ==
    Configured =>
        LET formats   == devices[physicalDevice].formats
            preferred == {k \in DOMAIN formats : formats[k] = PreferredFormat}
            chosen    == [format |-> createInfo.imageFormat,
                          colorSpace |-> createInfo.imageColorSpace]
        IN  /\ formats # <<>>
            /\ chosen = IF preferred # {} THEN formats[Min(preferred)] ELSE formats[1]
            /\ \E k \in DOMAIN formats : formats[k] = chosen

\* the preferred pair is last, behind an entry that shares its format only
C9_Witness ==
    /\ Configured
    /\ Len(devices[physicalDevice].formats) = 2
    /\ devices[physicalDevice].formats[1] =
          [format |-> "VK_FORMAT_B8G8R8A8_SRGB",
           colorSpace |-> "VK_COLOR_SPACE_EXTENDED_SRGB_LINEAR_EXT"]
    /\ devices[physicalDevice].formats[2] = PreferredFormat
    /\ createInfo.imageColorSpace = "VK_COLOR_SPACE_SRGB_NONLINEAR_KHR"

----------------------------------------------------------------------------
(* C10: chooseSwapPresentMode returns the mailbox mode iff it occurs       *)
(* anywhere in the supported list and FIFO otherwise, whatever the order   *)
(* and the other members.                                                  *)

C10_PresentMode ==
    Configured =>
        LET modes == devices[physicalDevice].presentModes
        IN  createInfo.presentMode =
               IF \E k \in DOMAIN modes : modes[k] = "VK_PRESENT_MODE_MAILBOX_KHR"
               THEN "VK_PRESENT_MODE_MAILBOX_KHR" ELSE "VK_PRESENT_MODE_FIFO_KHR"

\* mailbox is the last of several modes
C10_Witness ==
    /\ Configured
    /\ Len(devices[physicalDevice].presentModes) >= 2
    /\ devices[physicalDevice].presentModes[1] = "VK_PRESENT_MODE_IMMEDIATE_KHR"
    /\ devices[physicalDevice].presentModes[Len(devices[physicalDevice].presentModes)]
          = "VK_PRESENT_MODE_MAILBOX_KHR"
    /\ createInfo.presentMode = "VK_PRESENT_MODE_MAILBOX_KHR"

----------------------------------------------------------------------------
(* C11: in every execution of isDeviceSuitable and of                      *)
(* rateDeviceSuitability the swapchain-support query for a candidate is    *)
(* issued only after that candidate's extension check has completed and    *)
(* returned true; for a candidate whose required extensions are            *)
(* unsupported the swapchain-support query is never issued.                *)

SelectionFunctions == {"isDeviceSuitable", "rateDeviceSuitability"}

Issued(fn, k, query) == \E j \in DOMAIN queries : queries[j] = Query(fn, k, query)

C11_QueryOrdering ==
    \A j \in DOMAIN queries :
        (/\ queries[j].fn \in SelectionFunctions
         /\ queries[j].query = "querySwapChainSupport") =>
            /\ SupportsRequired(devices[queries[j].device])
            /\ \E i \in 1..(j - 1) :
                  queries[i] = Query(queries[j].fn, queries[j].device,
                                     "checkDeviceExtensionSupport")

\* both functions have examined a device with the extensions and one without
C11_Witness ==
    /\ Len(devices) = 2
    /\ SupportsRequired(devices[1])
    /\ ~SupportsRequired(devices[2])
    /\ \A fn \in SelectionFunctions :
          /\ Issued(fn, 1, "querySwapChainSupport")
          /\ Issued(fn, 2, "checkDeviceExtensionSupport")
          /\ ~Issued(fn, 2, "querySwapChainSupport")

----------------------------------------------------------------------------
(* C12: once any capability query or object-creation call of the setup     *)
(* sequence has failed at the driver level, no later setup stage runs, the *)
(* main loop is never entered and the process ends with a non-zero status. *)

C12_FailFast ==
    failedCalls # {} =>
        /\ pc \in {"catch", "exit"}
        /\ pc = "exit" => exitStatus = "EXIT_FAILURE"

----------------------------------------------------------------------------
(* C13: on the normal path setup creates instance, debug messenger,        *)
(* surface, selected physical device, logical device and swapchain in that *)
(* order, and cleanup destroys every created resource.  As first stated    *)
(* the destruction order is the exact reverse of the creation order; as    *)
(* amended it is the reverse of the creation order except that the debug   *)
(* messenger is destroyed before the surface.                              *)

Range(s) == {s[i] : i \in DOMAIN s}

Reverse(s) == [i \in 1..Len(s) |-> s[Len(s) + 1 - i]]

Position(s, x) == CHOOSE i \in DOMAIN s : s[i] = x

CreationOrder == <<"window", "instance", "debugMessenger", "surface", "device", "swapChain">>

NormalExit == pc = "exit" /\ exitStatus = "EXIT_SUCCESS"

\* what is created so far is created in dependency order, selection included
CreatedInOrder ==
    /\ created = SubSeq(CreationOrder, 1, Len(created))
    /\ "device" \in Range(created) => physicalDevice # VK_NULL_HANDLE
    /\ physicalDevice # VK_NULL_HANDLE => "surface" \in Range(created)

C13_Original ==
    /\ CreatedInOrder
    /\ NormalExit => created = CreationOrder /\ destroyed = Reverse(created)

C13_Amended ==
    /\ CreatedInOrder
    /\ NormalExit =>
          /\ created = CreationOrder
          /\ Len(destroyed) = Len(created)
          /\ Range(destroyed) = Range(created)
          /\ \A i, j \in DOMAIN created :
                i < j =>
                   IF created[i] = "debugMessenger" /\ created[j] = "surface"
                   THEN Position(destroyed, created[i]) < Position(destroyed, created[j])
                   ELSE Position(destroyed, created[j]) < Position(destroyed, created[i])

\* the window was closed and cleanup has run
C13_Witness ==
    /\ NormalExit
    /\ Len(destroyed) = 6
    /\ destroyed[3] = "debugMessenger"

----------------------------------------------------------------------------
(* C14: on every exit path of run(), an early failure of a setup stage     *)
(* included, every resource created before the exit is destroyed before    *)
(* the process terminates and no resource that was never created is        *)
(* destroyed.                                                              *)

C14_GuaranteedRelease == pc = "exit" => Range(destroyed) = Range(created)

----------------------------------------------------------------------------
(* C15: every candidate for which isDeviceSuitable returns true is given a *)
(* strictly positive score by rateDeviceSuitability, so that a device list *)
(* containing such a candidate does not make pickPhysicalDevice fail.      *)

ScoreOf(k) == (CHOOSE c \in Range(candidates) : c.second = k).first

C15_Agreement ==
    (suitable # <<>> /\ candidates # <<>>) =>
        \A k \in DOMAIN devices :
            suitable[k] => ScoreOf(k) > 0 /\ ~PickFailed

====
